---- MODULE Spec2Model ----
(***************************************************************************)
(* A model of streamlit_app.py (TEA Generator): the decoding of the        *)
(* language model's response (parse_openai_response), the normalization    *)
(* loop of generate_business_variables, the ordering computed by           *)
(* plot_tornado_chart, and the session-state logic of the Streamlit        *)
(* script body.                                                            *)
(*                                                                         *)
(* Texts are sequences of one-character strings.  Numbers are integers in  *)
(* hundredths (0.1 is 10, 5 is 500): every literal drawn below has at most *)
(* two fraction digits, so the arithmetic of the code (comparison, max,    *)
(* one addition) is exact here; binary floating-point rounding is not      *)
(* modelled.                                                               *)
(***************************************************************************)
EXTENDS Integers, Sequences, FiniteSets, TLC

\* 0.1 in hundredths: the floor of lines 33 and 87.
StepFloor == 10
\* 1.0 in hundredths.
Unit == StepFloor * 10

(***************************************************************************)
(* Characters                                                              *)
(***************************************************************************)
Digits == <<"0", "1", "2", "3", "4", "5", "6", "7", "8", "9">>
DigitSet == {Digits[i] : i \in 1..Len(Digits)}
DigitVal(c) == (CHOOSE i \in 1..Len(Digits) : Digits[i] = c) - 1
Whitespace == {" ", "\n", "\t", "\r"}
QuoteChar == "\""

\* The characters of the texts drawn below, in code-point order.
AsciiOrder ==
  <<"\t", "\n", "\r", " ", "\"", ",", "-", ".",
    "0", "1", "2", "3", "4", "5", "6", "7", "8", "9", ":", ";",
    "A", "B", "C", "H", "X", "Y", "[", "]",
    "a", "b", "c", "d", "e", "f", "i", "l", "m", "n", "o", "p", "r", "s",
    "t", "u", "x", "{", "}">>
Ord(c) == CHOOSE i \in 1..Len(AsciiOrder) : AsciiOrder[i] = c

\* The only element of a one-element set.  Only({e(x) : x \in {d}}) is
\* LET x == d IN e(x), with d evaluated once.
Only(S) == CHOOSE x \in S : TRUE

\* s[i..j] (Python's s[i-1:j]); empty when j < i.
Slice(s, i, j) == [k \in 1..(j - i + 1) |-> s[i + k - 1]]

\* The number of consecutive elements of s, from position i on, that lie in set.
RunLen(s, i, set) ==
  LET stops == {j \in i..(Len(s) + 1) : j = Len(s) + 1 \/ s[j] \notin set}
  IN (CHOOSE j \in stops : \A h \in stops : j <= h) - i

\* Digits d1 d2 ... as a natural number.
RECURSIVE DigitsToNat(_)
DigitsToNat(ds) ==
  IF ds = <<>> THEN 0
  ELSE 10 * DigitsToNat(Slice(ds, 1, Len(ds) - 1)) + DigitVal(ds[Len(ds)])

\* A fraction's digits in hundredths (digits after the second are cut: none
\* of the literals drawn has them).
FracToHundredths(ds) ==
  (IF Len(ds) >= 1 THEN 10 * DigitVal(ds[1]) ELSE 0)
  + (IF Len(ds) >= 2 THEN DigitVal(ds[2]) ELSE 0)

(***************************************************************************)
(* Python values: None, bool, number, str, list, dict, in one record shape.*)
(* A dict's items are <<key, value>> pairs in insertion order.             *)
(***************************************************************************)
PyNone == [t |-> "none", n |-> 0, s |-> <<>>, items |-> <<>>]
PyBool(b) == [t |-> "bool", n |-> IF b THEN Unit ELSE 0, s |-> <<>>, items |-> <<>>]
PyNum(n) == [t |-> "num", n |-> n, s |-> <<>>, items |-> <<>>]
PyStr(s) == [t |-> "str", n |-> 0, s |-> s, items |-> <<>>]
PyList(items) == [t |-> "list", n |-> 0, s |-> <<>>, items |-> items]
PyDict(items) == [t |-> "dict", n |-> 0, s |-> <<>>, items |-> items]

IsNumber(v) == v.t \in {"num", "bool"}

\* An operation's outcome: a value, or the exception it raised.
Ok(v) == [exc |-> "none", val |-> v]
Raise(e) == [exc |-> e, val |-> PyNone]

\* bool(v): Python truthiness, as `if st.session_state.variables:` uses it.
Truthy(v) ==
  CASE v.t = "none" -> FALSE
    [] v.t \in {"num", "bool"} -> v.n # 0
    [] v.t = "str" -> v.s # <<>>
    [] OTHER -> v.items # <<>>

\* str < str: lexicographic by code point.
RECURSIVE StrLess(_, _)
StrLess(a, b) ==
  IF b = <<>> THEN FALSE
  ELSE IF a = <<>> THEN TRUE
  ELSE IF a[1] = b[1] THEN StrLess(Tail(a), Tail(b))
  ELSE Ord(a[1]) < Ord(b[1])

\* a < b may be evaluated: numbers with numbers, str with str.  (Python also
\* orders list with list; no record drawn below has a list as a field.)
Comparable(a, b) ==
  \/ IsNumber(a) /\ IsNumber(b)
  \/ a.t = "str" /\ b.t = "str"
PyLess(a, b) == IF a.t = "str" THEN StrLess(a.s, b.s) ELSE a.n < b.n

\* The built-ins min(a, b) and max(a, b): the first argument is kept unless
\* the second is strictly smaller (larger); TypeError when a < b is not
\* supported between the two types.
PyMin(a, b) ==
  IF ~Comparable(a, b) THEN Raise("TypeError")
  ELSE Ok(IF PyLess(b, a) THEN b ELSE a)
PyMax(a, b) ==
  IF ~Comparable(a, b) THEN Raise("TypeError")
  ELSE Ok(IF PyLess(a, b) THEN b ELSE a)

\* float(str): optional surrounding whitespace, optional sign, digits with an
\* optional fraction (or a fraction alone).  ValueError otherwise.  (Exponents,
\* inf, nan and underscores are accepted by Python and are not drawn below.)
StripLeft(s) == Slice(s, RunLen(s, 1, Whitespace) + 1, Len(s))
RECURSIVE StripRight(_)
StripRight(s) ==
  IF s # <<>> /\ s[Len(s)] \in Whitespace
  THEN StripRight(Slice(s, 1, Len(s) - 1)) ELSE s
StrToFloat(str) ==
  LET s == StripRight(StripLeft(str))
      neg == s # <<>> /\ s[1] = "-"
      signed == s # <<>> /\ s[1] \in {"-", "+"}
      body == IF signed THEN Tail(s) ELSE s
      ni == RunLen(body, 1, DigitSet)
      hasDot == ni < Len(body) /\ body[ni + 1] = "."
      nf == IF hasDot THEN RunLen(body, ni + 2, DigitSet) ELSE 0
      consumed == ni + (IF hasDot THEN 1 + nf ELSE 0)
      mag == Unit * DigitsToNat(Slice(body, 1, ni))
             + FracToHundredths(Slice(body, ni + 2, ni + 1 + nf))
  IN IF consumed = Len(body) /\ ni + nf >= 1
     THEN Ok(PyNum(IF neg THEN 0 - mag ELSE mag))
     ELSE Raise("ValueError")

\* float(v).
PyFloat(v) ==
  CASE IsNumber(v) -> Ok(PyNum(v.n))
    [] v.t = "str" -> StrToFloat(v.s)
    [] OTHER -> Raise("TypeError")

(***************************************************************************)
(* re.findall(pattern, response_text) for the pattern of line 25.          *)
(* Python's re is a backtracking matcher: every quantifier is greedy and,  *)
(* when what follows fails, gives back one character at a time; the match  *)
(* found at a position is the first in that order of preference.  Here the *)
(* matcher's alternatives are carried through the pattern as a set of      *)
(* threads ranked by preference (rank 0 is tried first); of two threads at *)
(* the same position the preferred one is kept, as the other can only      *)
(* repeat its continuation.                                                *)
(***************************************************************************)
\* A literal text.
Lit(chars) == [k |-> "lit", neg |-> FALSE, set |-> {}, chars |-> chars, g |-> 0]
\* c?, c*, c+ for a character class c (neg: its complement); g is the capture
\* group the item is, or 0.
Opt(set) == [k |-> "opt", neg |-> FALSE, set |-> set, chars |-> <<>>, g |-> 0]
Star(set) == [k |-> "star", neg |-> FALSE, set |-> set, chars |-> <<>>, g |-> 0]
GroupPlusNot(set, g) ==
  [k |-> "plus", neg |-> TRUE, set |-> set, chars |-> <<>>, g |-> g]
\* (\d+(?:\.\d+)?) as group g.
GroupNumber(g) ==
  [k |-> "number", neg |-> FALSE, set |-> {}, chars |-> <<>>, g |-> g]

KeyName == <<"n", "a", "m", "e">>
KeyMin == <<"m", "i", "n">>
KeyMax == <<"m", "a", "x">>
KeyDefault == <<"d", "e", "f", "a", "u", "l", "t">>
KeyStep == <<"s", "t", "e", "p">>

\* ,\s*\"?key\"?\s*:\s*(\d+(?:\.\d+)?)
NumericKey(key, g) ==
  <<Lit(<<",">>), Star(Whitespace), Opt({QuoteChar}), Lit(key),
    Opt({QuoteChar}), Star(Whitespace), Lit(<<":">>), Star(Whitespace),
    GroupNumber(g)>>

\* name\"?\s*:\s*\"?([^\"]+)\"? followed by the four numeric keys.
Pattern ==
  <<Lit(KeyName), Opt({QuoteChar}), Star(Whitespace), Lit(<<":">>),
    Star(Whitespace), Opt({QuoteChar}), GroupPlusNot({QuoteChar}, 1),
    Opt({QuoteChar})>>
  \o NumericKey(KeyMin, 2) \o NumericKey(KeyMax, 3)
  \o NumericKey(KeyDefault, 4) \o NumericKey(KeyStep, 5)

NoMatch == <<>>
NoGroups == [g \in 1..5 |-> <<>>]
InClass(c, item) == (c \in item.set) # item.neg
ClassRun(text, i, item) ==
  LET stops == {j \in i..(Len(text) + 1) :
                  j = Len(text) + 1 \/ ~InClass(text[j], item)}
  IN (CHOOSE j \in stops : \A h \in stops : j <= h) - i
\* n, n-1, ..., least
Downto(n, least) == [j \in 1..(n - least + 1) |-> n + 1 - j]

\* The lengths item may take at position i of text, in the matcher's order of
\* preference (longest first).
Candidates(item, text, i) ==
  LET run == ClassRun(text, i, item)
      int == RunLen(text, i, DigitSet)
      frac == IF i + int <= Len(text) /\ text[i + int] = "."
              THEN RunLen(text, i + int + 1, DigitSet) ELSE 0
  IN CASE item.k = "lit" ->
            IF /\ i + Len(item.chars) - 1 <= Len(text)
               /\ Slice(text, i, i + Len(item.chars) - 1) = item.chars
            THEN <<Len(item.chars)>> ELSE <<>>
       [] item.k = "opt" -> IF run >= 1 THEN <<1, 0>> ELSE <<0>>
       [] item.k = "star" -> Downto(run, 0)
       [] item.k = "plus" -> Downto(run, 1)
       [] OTHER ->
            IF int = 0 THEN <<>>
            ELSE [j \in 1..frac |-> int + 1 + frac + 1 - j] \o Downto(int, 1)

\* Of the threads, one per position: the preferred one, ranked anew from 0.
Preferred(threads) ==
  Only({{[e EXCEPT !.rank = Cardinality({f \in kept : f.rank < e.rank})]
         : e \in kept}
        : kept \in {{e \in threads :
                       \A f \in threads : f.pos = e.pos => e.rank <= f.rank}}})

\* The threads after item, from the threads before it: each thread continues
\* with each length the item may take, its alternatives ranked after those of
\* every thread preferred to it.
Step(text, item, threads) ==
  Only({Preferred(expanded) : expanded \in
    {UNION {{[rank |-> t.rank * (Len(text) + 2) + j,
              pos |-> t.pos + lens[j],
              groups |-> IF item.g = 0 THEN t.groups
                         ELSE [t.groups EXCEPT ![item.g] =
                                 Slice(text, t.pos, t.pos + lens[j] - 1)]]
             : j \in 1..Len(lens)}
            : <<t, lens>> \in {<<u, Candidates(item, text, u.pos)>>
                               : u \in threads}}}})

\* The threads after pattern items lo..hi.
RECURSIVE Run(_, _, _, _, _)
Run(text, pat, lo, hi, threads) ==
  IF lo = hi THEN Step(text, pat[lo], threads)
  ELSE Only({IF half = {} THEN {}
             ELSE Run(text, pat, (lo + hi) \div 2 + 1, hi, half)
             : half \in {Run(text, pat, lo, (lo + hi) \div 2, threads)}})

\* The match of pat at position i of text, or NoMatch.  A match is
\* <<groups, end>>, end being the position after it.
MatchAt(text, pat, i) ==
  Only({IF final = {} THEN NoMatch
        ELSE Only({<<t.groups, t.pos>> : t \in {u \in final : u.rank = 0}})
        : final \in {Run(text, pat, 1, Len(pat),
                         {[rank |-> 0, pos |-> i, groups |-> NoGroups]})}})

\* The leftmost match of pat from position pos on, or NoMatch.
FirstMatch(text, pat, pos) ==
  Only({IF \A a \in attempts : a[2] = NoMatch THEN NoMatch
        ELSE (CHOOSE a \in attempts :
                /\ a[2] # NoMatch
                /\ \A b \in attempts : b[2] # NoMatch => a[1] <= b[1])[2]
        : attempts \in {{<<q, MatchAt(text, pat, q)>> : q \in pos..Len(text)}}})

\* re.findall: the non-overlapping matches from left to right, each as the
\* tuple of its five groups' texts.
RECURSIVE FindAll(_, _, _)
FindAll(text, pat, pos) ==
  Only({IF m = NoMatch THEN <<>> ELSE <<m[1]>> \o FindAll(text, pat, m[2])
        : m \in {FirstMatch(text, pat, pos)}})

(***************************************************************************)
(* json.loads(response_text): a recursive-descent decoder of JSON texts.   *)
(* Not drawn below, and so not decoded: backslash escapes in strings,      *)
(* exponents, and the constants NaN and Infinity that Python also accepts. *)
(***************************************************************************)
At(text, i) == IF i >= 1 /\ i <= Len(text) THEN text[i] ELSE ""
SkipWs(text, i) == i + RunLen(text, i, Whitespace)
Parsed(v, next) == [ok |-> TRUE, val |-> v, next |-> next]
ParseFail == [ok |-> FALSE, val |-> PyNone, next |-> 0]

\* "chars": up to the next quote; a control character inside is an error.
ParseString(text, i) ==
  LET n == RunLen(text, i + 1,
                  {text[j] : j \in 1..Len(text)} \ {QuoteChar})
      body == Slice(text, i + 1, i + n)
  IN IF /\ At(text, i) = QuoteChar
        /\ At(text, i + n + 1) = QuoteChar
        /\ \A j \in 1..n : body[j] \notin {"\n", "\t", "\r"}
     THEN Parsed(PyStr(body), i + n + 2)
     ELSE ParseFail

\* -?(0|[1-9]\d*)(\.\d+)?
ParseNumber(text, i) ==
  LET neg == At(text, i) = "-"
      start == IF neg THEN i + 1 ELSE i
      run == RunLen(text, start, DigitSet)
      ni == IF At(text, start) = "0" THEN 1 ELSE run
      nf == IF At(text, start + ni) = "."
            THEN RunLen(text, start + ni + 1, DigitSet) ELSE 0
      mag == Unit * DigitsToNat(Slice(text, start, start + ni - 1))
             + FracToHundredths(Slice(text, start + ni + 1, start + ni + nf))
  IN IF ni = 0 THEN ParseFail
     ELSE Parsed(PyNum(IF neg THEN 0 - mag ELSE mag),
                 start + ni + (IF nf > 0 THEN 1 + nf ELSE 0))

ParseLiteral(text, i, word, v) ==
  IF i + Len(word) - 1 <= Len(text) /\ Slice(text, i, i + Len(word) - 1) = word
  THEN Parsed(v, i + Len(word)) ELSE ParseFail

\* d[key] = v on the items of a dict: a key already there keeps its place.
SetItem(items, key, v) ==
  IF \E j \in 1..Len(items) : items[j][1] = key
  THEN [j \in 1..Len(items) |->
          IF items[j][1] = key THEN <<key, v>> ELSE items[j]]
  ELSE Append(items, <<key, v>>)

RECURSIVE ParseValue(_, _)
RECURSIVE ParseElements(_, _, _)
RECURSIVE ParseMembers(_, _, _)
\* The elements of an array from position i (after "[" or ","), acc being
\* those decoded so far.
ParseElements(text, i, acc) ==
  Only({LET j == SkipWs(text, v.next)
        IN IF ~v.ok THEN ParseFail
           ELSE IF At(text, j) = ","
             THEN ParseElements(text, SkipWs(text, j + 1), Append(acc, v.val))
           ELSE IF At(text, j) = "]"
             THEN Parsed(PyList(Append(acc, v.val)), j + 1)
           ELSE ParseFail
        : v \in {ParseValue(text, i)}})
\* The members of an object from position i (after "{" or ",").
ParseMembers(text, i, acc) ==
  Only({IF ~k.ok \/ At(text, SkipWs(text, k.next)) # ":" THEN ParseFail
        ELSE Only({LET j == SkipWs(text, v.next)
                   IN IF ~v.ok THEN ParseFail
                      ELSE IF At(text, j) = ","
                        THEN ParseMembers(text, SkipWs(text, j + 1),
                                          SetItem(acc, k.val.s, v.val))
                      ELSE IF At(text, j) = "}"
                        THEN Parsed(PyDict(SetItem(acc, k.val.s, v.val)), j + 1)
                      ELSE ParseFail
                   : v \in {ParseValue(text,
                               SkipWs(text, SkipWs(text, k.next) + 1))}})
        : k \in {ParseString(text, i)}})
ParseValue(text, i) ==
  LET c == At(text, i)
      j == SkipWs(text, i + 1)
  IN CASE c = "[" ->
            IF At(text, j) = "]" THEN Parsed(PyList(<<>>), j + 1)
            ELSE ParseElements(text, j, <<>>)
       [] c = "{" ->
            IF At(text, j) = "}" THEN Parsed(PyDict(<<>>), j + 1)
            ELSE ParseMembers(text, j, <<>>)
       [] c = QuoteChar -> ParseString(text, i)
       [] c \in DigitSet \cup {"-"} -> ParseNumber(text, i)
       [] c = "n" -> ParseLiteral(text, i, <<"n", "u", "l", "l">>, PyNone)
       [] c = "t" -> ParseLiteral(text, i, <<"t", "r", "u", "e">>, PyBool(TRUE))
       [] c = "f" ->
            ParseLiteral(text, i, <<"f", "a", "l", "s", "e">>, PyBool(FALSE))
       [] OTHER -> ParseFail

\* json.loads: one value, with nothing but whitespace around it.
JsonLoads(text) ==
  Only({IF v.ok /\ SkipWs(text, v.next) = Len(text) + 1
        THEN Ok(v.val) ELSE Raise("JSONDecodeError")
        : v \in {ParseValue(text, SkipWs(text, 1))}})

(***************************************************************************)
(* dict and list access                                                    *)
(***************************************************************************)
HasKey(d, key) == \E j \in 1..Len(d.items) : d.items[j][1] = key
Lookup(d, key) ==
  d.items[CHOOSE j \in 1..Len(d.items) : d.items[j][1] = key][2]
\* var[key]: TypeError on anything but a dict (a str, a number and None take
\* no str subscript), KeyError on a dict without the key.
GetItem(var, key) ==
  IF var.t # "dict" THEN Raise("TypeError")
  ELSE IF ~HasKey(var, key) THEN Raise("KeyError")
  ELSE Ok(Lookup(var, key))
\* The first exception among the outcomes, or "none".
FirstExc(outcomes) ==
  IF \A j \in 1..Len(outcomes) : outcomes[j].exc = "none" THEN "none"
  ELSE outcomes[CHOOSE j \in 1..Len(outcomes) :
                  /\ outcomes[j].exc # "none"
                  /\ \A h \in 1..(j - 1) : outcomes[h].exc = "none"].exc

(***************************************************************************)
(* parse_openai_response (lines 20-35)                                     *)
(***************************************************************************)
\* Line 33: max(0.1, float(match[4])).
MatchStep(step) == IF step > StepFloor THEN step ELSE StepFloor

\* Lines 28-34: the record of one match.
MatchRecord(match) ==
  LET mn == StrToFloat(match[2])
      mx == StrToFloat(match[3])
      df == StrToFloat(match[4])
      st == StrToFloat(match[5])
      exc == FirstExc(<<mn, mx, df, st>>)
  IN IF exc # "none" THEN Raise(exc)
     ELSE Ok(PyDict(<<
            <<KeyName, PyStr(match[1])>>,
            <<KeyMin, mn.val>>,
            <<KeyMax, mx.val>>,
            <<KeyDefault, df.val>>,
            <<KeyStep, PyNum(MatchStep(st.val.n))>> >>))

\* Lines 24-35: the except branch.
RegexFallback(text) ==
  Only({IF FirstExc(records) # "none" THEN Raise(FirstExc(records))
        ELSE Ok(PyList([j \in 1..Len(records) |-> records[j].val]))
        : records \in
            {Only({[j \in 1..Len(matches) |-> MatchRecord(matches[j])]
                   : matches \in {FindAll(text, Pattern, 1)}})}})

\* What json.loads returns when it decodes the text, whatever its type;
\* the matches of the pattern when it raises JSONDecodeError.
parse_openai_response(text) ==
  Only({IF loaded.exc = "none" THEN loaded ELSE RegexFallback(text)
        : loaded \in {JsonLoads(text)}})

(***************************************************************************)
(* generate_business_variables: the loop of lines 86-92 and the return.    *)
(***************************************************************************)
\* Line 87: max(0.1, float(var['step'])); max keeps 0.1 unless the step is
\* larger.
FlooredStep(step) == IF step > StepFloor THEN step ELSE StepFloor

\* Widen with the floor in place of the step.
WidenByFloor(min, max, step) == IF min = max THEN max + StepFloor ELSE max

\* Lines 91-92, for the floats min, max, step of lines 87-89.
Widen(min, max, step) == IF min = max THEN max + step ELSE max

\* Lines 87-92 for one element of the list: the element as the loop leaves
\* it, or the first exception raised.
NormalizeVar(var) ==
  LET rawStep == GetItem(var, KeyStep)
      step == IF rawStep.exc # "none" THEN rawStep ELSE PyFloat(rawStep.val)
      rawMin == GetItem(var, KeyMin)
      rawDefault == GetItem(var, KeyDefault)
      rawMax == GetItem(var, KeyMax)
      least == IF FirstExc(<<rawMin, rawDefault>>) # "none"
               THEN Raise(FirstExc(<<rawMin, rawDefault>>))
               ELSE PyMin(rawMin.val, rawDefault.val)
      min == IF least.exc # "none" THEN least ELSE PyFloat(least.val)
      most == IF rawMax.exc # "none" THEN rawMax
              ELSE PyMax(rawMax.val, rawDefault.val)
      max == IF most.exc # "none" THEN most ELSE PyFloat(most.val)
      default == PyFloat(rawDefault.val)
      exc == FirstExc(<<step, min, max, default>>)
      s1 == SetItem(var.items, KeyStep, PyNum(FlooredStep(step.val.n)))
      s2 == SetItem(s1, KeyMin, min.val)
      s3 == SetItem(s2, KeyMax, max.val)
      s4 == SetItem(s3, KeyDefault, default.val)
  IN IF exc # "none" THEN Raise(exc)
     ELSE Ok(PyDict(SetItem(s4, KeyMax,
               PyNum(Widen(min.val.n, max.val.n, FlooredStep(step.val.n))))))

\* What `for var in variables` iterates over: the elements of a list, the
\* keys of a dict, the characters of a str; TypeError for the rest.
Iterate(variables) ==
  CASE variables.t = "list" -> Ok(PyList(variables.items))
    [] variables.t = "dict" ->
         Ok(PyList([j \in 1..Len(variables.items) |->
                      PyStr(variables.items[j][1])]))
    [] variables.t = "str" ->
         Ok(PyList([j \in 1..Len(variables.s) |-> PyStr(<<variables.s[j]>>)]))
    [] OTHER -> Raise("TypeError")

\* Lines 83-94 on the response text: the value returned, the list's elements
\* normalized in place, or the first exception raised.
NormalizeAll(parsed) ==
  IF Iterate(parsed).exc # "none" THEN Iterate(parsed)
  ELSE Only({IF FirstExc(outs) # "none" THEN Raise(FirstExc(outs))
             ELSE IF parsed.t = "list"
               THEN Ok(PyList([j \in 1..Len(outs) |-> outs[j].val]))
             ELSE Ok(parsed)
             : outs \in {[j \in 1..Len(Iterate(parsed).val.items) |->
                            NormalizeVar(Iterate(parsed).val.items[j])]}})

(***************************************************************************)
(* The responses of the language model that are drawn.  A response is      *)
(* written from a plan: the records the model means to give, as the JSON   *)
(* list the prompt asks for (lines 67-72), as a fragment per record in     *)
(* text that is not JSON, or a text given as it is.                        *)
(***************************************************************************)
\* The most records in one response.
MaxRecords == 2

\* A key left out of a record.
Missing == [t |-> "missing", n |-> 0, s |-> <<>>, items |-> <<>>]

Field(name, min, max, default, step) ==
  [name |-> name, min |-> min, max |-> max, default |-> default, step |-> step]

RECURSIVE NatText(_)
NatText(n) ==
  IF n < 10 THEN <<Digits[n + 1]>>
  ELSE NatText(n \div 10) \o <<Digits[(n % 10) + 1]>>
\* A number (in hundredths) as a literal: 500 is 5, 250 is 2.5, 5 is 0.05.
NumText(n) ==
  LET mag == IF n < 0 THEN 0 - n ELSE n
      frac == mag % Unit
  IN (IF n < 0 THEN <<"-">> ELSE <<>>) \o NatText(mag \div Unit)
     \o (IF frac = 0 THEN <<>>
         ELSE IF frac % 10 = 0 THEN <<".", Digits[(frac \div 10) + 1]>>
         ELSE <<".", Digits[(frac \div 10) + 1], Digits[(frac % 10) + 1]>>)

\* A field's value as JSON.
ValueText(v) ==
  CASE v.t = "num" -> NumText(v.n)
    [] v.t = "str" -> <<QuoteChar>> \o v.s \o <<QuoteChar>>
    [] OTHER -> <<"n", "u", "l", "l">>

RECURSIVE Join(_, _)
Join(parts, sep) ==
  IF parts = <<>> THEN <<>>
  ELSE IF Len(parts) = 1 THEN parts[1]
  ELSE parts[1] \o sep \o Join(Tail(parts), sep)

Quoted(chars) == <<QuoteChar>> \o chars \o <<QuoteChar>>
FieldKeys == <<KeyMin, KeyMax, KeyDefault, KeyStep>>
FieldValues(f) == <<f.min, f.max, f.default, f.step>>

\* {"name": "X", "min": 0, "max": 10, "default": 5, "step": 1}, a key that
\* is Missing left out.
JsonRecordText(f) ==
  LET present == SelectSeq(<<1, 2, 3, 4>>,
                           LAMBDA j : FieldValues(f)[j] # Missing)
  IN <<"{">> \o Join(<<Quoted(KeyName) \o <<":", " ">> \o Quoted(f.name)>>
                     \o [j \in 1..Len(present) |->
                           Quoted(FieldKeys[present[j]]) \o <<":", " ">>
                           \o ValueText(FieldValues(f)[present[j]])],
                     <<",", " ">>) \o <<"}">>
\* name: X, min: 0, max: 10, default: 5, step: 1
BareFragmentText(f) ==
  Join(<<KeyName \o <<":", " ">> \o f.name>>
       \o [j \in 1..4 |-> FieldKeys[j] \o <<":", " ">>
                          \o ValueText(FieldValues(f)[j])],
       <<",", " ">>)

Prose == <<"H", "e", "r", "e", ":", " ">>
\* The text of a plan.
Render(plan) ==
  LET n == Len(plan.records)
  IN CASE plan.kind = "json" ->
            <<"[">> \o Join([j \in 1..n |-> JsonRecordText(plan.records[j])],
                            <<",", " ">>) \o <<"]">>
       \* the list with a comma after its last record: not JSON
       [] plan.kind = "quoted" ->
            <<"[">> \o Join([j \in 1..n |-> JsonRecordText(plan.records[j])],
                            <<",", " ">>) \o <<",", "]">>
       \* a line per record after a word of prose
       [] plan.kind = "bare" ->
            Prose \o Join([j \in 1..n |-> BareFragmentText(plan.records[j])],
                          <<"\n">>)
       [] OTHER -> plan.text

Plan(kind, records, text) == [kind |-> kind, records |-> records, text |-> text]

\* Sequences of at most n elements of S.
SeqUpTo(S, n) == UNION {[1..k -> S] : k \in 0..n}

NameX == <<"X">>
NameY == <<"Y">>
\* -1, 0, 5, 10
LimitValues == {PyNum(0 - Unit), PyNum(0), PyNum(5 * Unit), PyNum(10 * Unit)}
\* -1, 0, 0.05, 1, 2
StepValues ==
  {PyNum(0 - Unit), PyNum(0), PyNum(StepFloor \div 2), PyNum(Unit), PyNum(2 * Unit)}
\* "5", "9", "10", "abc"
StringValues ==
  {PyStr(<<"5">>), PyStr(<<"9">>), PyStr(<<"1", "0">>), PyStr(<<"a", "b", "c">>)}

Good == Field(NameX, PyNum(0), PyNum(10 * Unit), PyNum(5 * Unit), PyNum(Unit))
\* {min: 5, max: 5, default: 5, step: 2}
Degenerate ==
  Field(NameY, PyNum(5 * Unit), PyNum(5 * Unit), PyNum(5 * Unit), PyNum(2 * Unit))
\* a min that is no number
BadMin == [Good EXCEPT !.min = PyStr(<<"a", "b", "c">>)]
NoStep == [Good EXCEPT !.step = Missing]
\* every number as a string: min "10", max "20", default "9", step "1"
AsStrings ==
  Field(NameX, PyStr(<<"1", "0">>), PyStr(<<"2", "0">>), PyStr(<<"9">>),
        PyStr(<<"1">>))

\* The records of the one-record JSON responses.
SingleRecords ==
  {Field(NameX, a, b, c, d) : a \in LimitValues, b \in LimitValues,
                              c \in LimitValues, d \in StepValues}
  \cup {Field(NameX, a, b, c, PyStr(<<"1">>)) :
          a \in StringValues, b \in StringValues, c \in StringValues}
  \cup {NoStep, AsStrings,
        [Good EXCEPT !.min = Missing],
        [Good EXCEPT !.step = PyNone],
        [Good EXCEPT !.step = PyStr(<<"a", "b", "c">>)],
        [Good EXCEPT !.step = PyStr(<<"0", ".", "0", "5">>)],
        [Good EXCEPT !.min = PyStr(<<"1", "0">>)]}
\* The records of the JSON responses of several records.
ListRecords == {Good, Degenerate, BadMin, NoStep, AsStrings}

\* The records written as fragments: literals without a sign.
FragmentLimits == {PyNum(0), PyNum(5 * Unit), PyNum(10 * Unit)}
FragmentSteps ==
  {PyNum(0), PyNum(StepFloor \div 2), PyNum(Unit), PyNum(2 * Unit + 5 * StepFloor)}
SingleFragments ==
  {Field(NameX, a, b, c, d) : a \in FragmentLimits, b \in FragmentLimits,
                              c \in FragmentLimits, d \in FragmentSteps}
ListFragments == {Good, [Degenerate EXCEPT !.step = PyNum(StepFloor \div 2)]}

\* Texts given as they are.
RawTexts ==
  {<<>>,
   <<"n", "o", "t", " ", "j", "s", "o", "n">>,
   <<"5">>,
   <<"n", "u", "l", "l">>,
   <<"t", "r", "u", "e">>,
   <<"{", "}">>,
   <<QuoteChar, QuoteChar>>,
   <<QuoteChar, "a", "b", "c", QuoteChar>>,
   <<"{", QuoteChar, "a", QuoteChar, ":", " ", "1", "}">>,
   \* one record, not in a list
   JsonRecordText(Good),
   \* a minimum with a sign
   Prose \o BareFragmentText([Good EXCEPT !.min = PyNum(0 - Unit)]),
   \* max before min
   Prose \o <<"n", "a", "m", "e", ":", " ", "X", ",", " ">>
         \o <<"m", "a", "x", ":", " ", "1", "0", ",", " ">>
         \o <<"m", "i", "n", ":", " ", "0", ",", " ">>
         \o <<"d", "e", "f", "a", "u", "l", "t", ":", " ", "5", ",", " ">>
         \o <<"s", "t", "e", "p", ":", " ", "1">>}

Plans ==
  {Plan("json", <<r>>, <<>>) : r \in SingleRecords}
  \cup {Plan("json", rs, <<>>) : rs \in SeqUpTo(ListRecords, MaxRecords)}
  \cup {Plan(k, <<r>>, <<>>) : k \in {"bare", "quoted"}, r \in SingleFragments}
  \cup {Plan(k, rs, <<>>) :
          k \in {"bare", "quoted"}, rs \in SeqUpTo(ListFragments, MaxRecords)}
  \cup {Plan("raw", <<>>, t) : t \in RawTexts}

\* The responses of the session's calls.
SessionPlans ==
  {Plan("json", rs, <<>>) :
     rs \in {<<>>, <<Good>>, <<Good, Degenerate>>, <<BadMin>>, <<Good, NoStep>>}}
  \cup {Plan("bare", <<Good>>, <<>>)}
  \cup {Plan("raw", <<>>, t) : t \in {<<>>, <<"5">>, <<"{", "}">>}}

(***************************************************************************)
(* plot_tornado_chart (lines 97-113).  Positions are counted from 1.       *)
(***************************************************************************)
\* The most names, and the most values, of a call of plot_tornado_chart alone.
MaxBars == 3

RECURSIVE Sum(_)
Sum(xs) == IF xs = <<>> THEN 0 ELSE xs[1] + Sum(Tail(xs))
Abs(x) == IF x < 0 THEN 0 - x ELSE x
\* |values[i] - mean(values)|, times len(values): the order of the deviations
\* is that of their multiples.
Deviation(values, i) == Abs(Len(values) * values[i] - Sum(values))

\* Sorted with the largest deviation first.
SortedDescending(values, p) ==
  \A j \in 1..(Len(values) - 1) :
    Deviation(values, p[j]) >= Deviation(values, p[j + 1])

\* Whether a permutation has the deviations in the order argsort gives.
Sorted(values, p) ==
  \A j \in 1..(Len(values) - 1) :
    Deviation(values, p[j]) <= Deviation(values, p[j + 1])

\* Line 101: np.argsort(...) with the default kind, quicksort, which numpy
\* documents as not stable: any permutation that sorts the deviations, equal
\* deviations in an order the numpy build decides.
ArgSorts(values) ==
  {p \in [1..Len(values) -> 1..Len(values)] :
     /\ \A i, j \in 1..Len(values) : p[i] = p[j] => i = j
     /\ Sorted(values, p)}

\* What a call computed: the exception raised or "none", sorted_indices,
\* sorted_variables (labels), sorted_values (widths), and the bars drawn.
NotCalled ==
  [exc |-> "not called", indices |-> <<>>, labels |-> <<>>, widths |-> <<>>,
   bars |-> <<>>]
Chart(exc, indices, labels, widths, bars) ==
  [exc |-> exc, indices |-> indices, labels |-> labels, widths |-> widths,
   bars |-> bars]

\* The outcomes of plot_tornado_chart(variables, values) for the indices
\* argsort returned.  Lines 102-103 index both lists by them (IndexError past
\* the end of variables).  Line 105: barh broadcasts y_pos against the widths,
\* a single width to every position, and raises ValueError when the shapes do
\* not broadcast.  Line 107: set_yticklabels raises ValueError on a number of
\* labels other than the number of ticks in matplotlib from 3.3 on, and takes
\* them in the versions before it; the source pins none.
PlotOutcomes(variables, values, sorted_indices) ==
  LET n == Len(variables)
      m == Len(values)
      sorted_variables == [j \in 1..m |-> variables[sorted_indices[j]]]
      sorted_values == [j \in 1..m |-> values[sorted_indices[j]]]
      bars == IF m = n THEN sorted_values
              ELSE IF m = 1 THEN [j \in 1..n |-> sorted_values[1]]
              ELSE <<>>
  IN IF \E j \in 1..m : sorted_indices[j] > n
     THEN {Chart("IndexError", sorted_indices, <<>>, <<>>, <<>>)}
     ELSE IF ~(m = n \/ m = 1 \/ (n = 1 /\ m = 0))
     THEN {Chart("ValueError", sorted_indices, sorted_variables,
                 sorted_values, <<>>)}
     ELSE IF m = n
     THEN {Chart("none", sorted_indices, sorted_variables, sorted_values, bars)}
     ELSE {Chart("ValueError", sorted_indices, sorted_variables,
                 sorted_values, bars),
           Chart("none", sorted_indices, sorted_variables, sorted_values, bars)}

(***************************************************************************)
(* State                                                                   *)
(***************************************************************************)
VARIABLES
  plan,            \* what the language model's response was written from
  response_text,   \* response.choices[0].message.content of the last call
  decoded,         \* what parse_openai_response returned (line 83)
  result,          \* what generate_business_variables returned or raised
  session_state,   \* st.session_state.variables, or Absent
  business_idea,   \* the text inputs of the run (lines 249-250)
  location,
  issued,          \* whether the run called generate_business_variables
  display,         \* what the run showed
  variables,       \* the arguments of plot_tornado_chart
  values,
  chart            \* what plot_tornado_chart computed

vars == <<plan, response_text, decoded, result, session_state, business_idea,
          location, issued, display, variables, values, chart>>

Absent == [t |-> "absent", n |-> 0, s |-> <<>>, items |-> <<>>]
NotRun == [exc |-> "not run", val |-> PyNone]
NoPlan == Plan("none", <<>>, <<>>)

\* Lines 83-94 for a response: <<what line 83 decoded, what the call returned
\* or raised>>.  An exception of line 83 leaves the loop unreached.
generate_business_variables(text) ==
  Only({<<parsed,
          IF parsed.exc # "none" THEN parsed ELSE NormalizeAll(parsed.val)>>
        : parsed \in {parse_openai_response(text)}})

(***************************************************************************)
(* generate_business_variables on each response drawn.                     *)
(***************************************************************************)
InitDecode ==
  /\ plan \in Plans
  /\ response_text = Render(plan)
  /\ decoded = NotRun
  /\ result = NotRun
  /\ session_state = Absent
  /\ business_idea = <<>>
  /\ location = <<>>
  /\ issued = FALSE
  /\ display = "none"
  /\ variables = <<>>
  /\ values = <<>>
  /\ chart = NotCalled

GenerateBusinessVariables ==
  /\ result = NotRun
  /\ \E outcome \in {generate_business_variables(response_text)} :
       /\ decoded' = outcome[1]
       /\ result' = outcome[2]
  /\ issued' = TRUE
  /\ UNCHANGED <<plan, response_text, session_state, business_idea, location,
                 display, variables, values, chart>>

NextDecode == GenerateBusinessVariables
SpecDecode == InitDecode /\ [][NextDecode]_vars

(***************************************************************************)
(* plot_tornado_chart on each pair of lists drawn.                         *)
(***************************************************************************)
ChartNames == {<<"A">>, <<"B">>, <<"C">>}
\* 5, 10, 12, 100
ChartValues == {5 * Unit, 10 * Unit, 12 * Unit, 100 * Unit}

InitChart ==
  /\ variables \in SeqUpTo(ChartNames, MaxBars)
  /\ values \in SeqUpTo(ChartValues, MaxBars)
  /\ chart = NotCalled
  /\ plan = NoPlan
  /\ response_text = <<>>
  /\ decoded = NotRun
  /\ result = NotRun
  /\ session_state = Absent
  /\ business_idea = <<>>
  /\ location = <<>>
  /\ issued = FALSE
  /\ display = "none"

PlotTornadoChart ==
  /\ chart = NotCalled
  /\ \E sorted_indices \in ArgSorts(values) :
       chart' \in PlotOutcomes(variables, values, sorted_indices)
  /\ UNCHANGED <<plan, response_text, decoded, result, session_state,
                 business_idea, location, issued, display, variables, values>>

NextChart == PlotTornadoChart
SpecChart == InitChart /\ [][NextChart]_vars

(***************************************************************************)
(* The script body (lines 249-293): one run of it per action, as Streamlit *)
(* runs it again on every change of a widget.                              *)
(***************************************************************************)
\* What the user has typed in a text input: nothing, or something.
InputTexts == {<<>>, <<"A">>}
\* Where the user has put a slider.
SliderPicks == {"min", "default", "max"}
\* client.chat.completions.create raising (network, authentication, quota).
RemoteServiceError == Plan("error", <<>>, <<>>)

Init ==
  /\ plan = NoPlan
  /\ response_text = <<>>
  /\ decoded = NotRun
  /\ result = NotRun
  /\ session_state = Absent
  /\ business_idea = <<>>
  /\ location = <<>>
  /\ issued = FALSE
  /\ display = "none"
  /\ variables = <<>>
  /\ values = <<>>
  /\ chart = NotCalled

\* Lines 268-276: a slider per stored variable, each at the value the user
\* has put it.  (st.slider's own checks of its arguments are not modelled.)
SliderValues(stored, picks) ==
  [j \in 1..Len(stored.items) |->
     Lookup(stored.items[j], CASE picks[j] = "min" -> KeyMin
                               [] picks[j] = "max" -> KeyMax
                               [] OTHER -> KeyDefault).n]
VariableNames(stored) ==
  [j \in 1..Len(stored.items) |-> Lookup(stored.items[j], KeyName).s]

\* Line 263: the call, answered by reply: <<decoded, returned or raised>>.
CallOutcome(reply) ==
  IF reply = RemoteServiceError THEN <<NotRun, Raise("RemoteServiceError")>>
  ELSE generate_business_variables(Render(reply))

\* The rest of a run, lines 265-291: stored is st.session_state.variables, or
\* Absent when the call raised and ended the run.
Render265(idea, loc, stored, picks, pressed) ==
  IF stored # Absent /\ Truthy(stored)
  THEN \* lines 266-289
       /\ variables' = VariableNames(stored)
       /\ values' = SliderValues(stored, picks)
       /\ \E sorted_indices \in ArgSorts(SliderValues(stored, picks)) :
            chart' \in PlotOutcomes(VariableNames(stored),
                                    SliderValues(stored, picks), sorted_indices)
       /\ display' = (IF pressed THEN "report" ELSE "chart")
  ELSE /\ variables' = <<>>
       /\ values' = <<>>
       /\ chart' = NotCalled
       \* line 291, unless the call raised
       /\ display' = (IF stored = Absent THEN "exception" ELSE "failed")

\* VariablesNotInSession taking an empty stored list for no entry.
VariablesNotInSessionOrEmpty ==
  session_state = Absent \/ ~Truthy(session_state)

\* Line 261: 'variables' not in st.session_state.
VariablesNotInSession == session_state = Absent

\* One run of the script with the widgets as the user left them: idea and
\* loc in the text inputs, the sliders at picks, the report button pressed
\* or not; reply is what the language model answers if it is called.
Rerun(idea, loc, reply, picks, pressed) ==
  /\ business_idea' = idea
  /\ location' = loc
  /\ IF ~(Truthy(PyStr(idea)) /\ Truthy(PyStr(loc)))
     THEN \* line 293
          /\ display' = "info"
          /\ issued' = FALSE
          /\ variables' = <<>>
          /\ values' = <<>>
          /\ chart' = NotCalled
          /\ UNCHANGED <<plan, response_text, decoded, result, session_state>>
     ELSE IF VariablesNotInSession
     THEN \* lines 261-263
          \E outcome \in {CallOutcome(reply)} :
            /\ issued' = TRUE
            /\ plan' = reply
            /\ response_text' = Render(reply)
            /\ decoded' = outcome[1]
            /\ result' = outcome[2]
            /\ session_state' =
                 (IF outcome[2].exc = "none" THEN outcome[2].val ELSE Absent)
            /\ Render265(idea, loc, session_state', picks, pressed)
     ELSE /\ issued' = FALSE
          /\ UNCHANGED <<plan, response_text, decoded, result, session_state>>
          /\ Render265(idea, loc, session_state, picks, pressed)

Next ==
  \E idea \in InputTexts, loc \in InputTexts,
     reply \in SessionPlans \cup {RemoteServiceError},
     picks \in [1..MaxRecords -> SliderPicks], pressed \in BOOLEAN :
    Rerun(idea, loc, reply, picks, pressed)

Spec == Init /\ [][Next]_vars

(***************************************************************************)
(* The claims                                                              *)
(***************************************************************************)
\* The number that record rec has under key.
Num(rec, key) == Lookup(rec, key).n
\* A list whose elements are all dicts.
IsRecordList(v) ==
  v.t = "list" /\ \A j \in 1..Len(v.items) : v.items[j].t = "dict"
HasAllKeys(rec) ==
  \A k \in {KeyMin, KeyMax, KeyDefault, KeyStep} : HasKey(rec, k)
\* A number, or a string that reads as one.
IsNumeric(v) ==
  v.t = "num" \/ (v.t = "str" /\ StrToFloat(v.s).exc = "none")
\* line 83 has returned a list of records
DecodedRecords == decoded.exc = "none" /\ IsRecordList(decoded.val)
\* the call has returned a list of records
ReturnedRecords == result.exc = "none" /\ IsRecordList(result.val)

\* C1: for every list of raw records parse_openai_response returns, with the
\* numeric fields numbers or numeric strings, every variable that
\* generate_business_variables returns has min <= default <= max and
\* min # max.
C1_Ordering ==
  (/\ DecodedRecords
   /\ \A j \in 1..Len(decoded.val.items) :
        /\ HasAllKeys(decoded.val.items[j])
        /\ \A k \in {KeyMin, KeyMax, KeyDefault, KeyStep} :
             IsNumeric(Lookup(decoded.val.items[j], k))
   /\ ReturnedRecords)
  => \A j \in 1..Len(result.val.items) :
       LET v == result.val.items[j]
       IN /\ Num(v, KeyMin) <= Num(v, KeyDefault)
          /\ Num(v, KeyDefault) <= Num(v, KeyMax)
          /\ Num(v, KeyMin) # Num(v, KeyMax)

\* C2: for all raw records the normalization loop gives step >= 0.1 whatever
\* the input step: negative, zero, or missing from the record.  (The other
\* fields are numbers here, so that nothing but the step is in question.)
C2_StepFloor ==
  (/\ DecodedRecords
   /\ result # NotRun
   /\ \A j \in 1..Len(decoded.val.items) :
        LET r == decoded.val.items[j]
        IN /\ \A k \in {KeyMin, KeyMax, KeyDefault} :
                HasKey(r, k) /\ Lookup(r, k).t = "num"
           /\ HasKey(r, KeyStep) => Lookup(r, KeyStep).t = "num")
  => /\ ReturnedRecords
     /\ Len(result.val.items) = Len(decoded.val.items)
     /\ \A j \in 1..Len(result.val.items) :
          Num(result.val.items[j], KeyStep) >= StepFloor

\* Every one of min, max, default, step of the record can be made a float.
Coercible(rec) ==
  \A k \in {KeyMin, KeyMax, KeyDefault, KeyStep} :
    PyFloat(Lookup(rec, k)).exc = "none"
NamesOf(items) == [j \in 1..Len(items) |-> Lookup(items[j], KeyName)]

\* C3: normalization never fails: a record with a min, max, default or step
\* that cannot be coerced to a float is dropped, and every other record is
\* returned, in the order of the input.
C3_DropsUncoercible ==
  (/\ DecodedRecords
   /\ result # NotRun
   /\ \A j \in 1..Len(decoded.val.items) : HasAllKeys(decoded.val.items[j]))
  => /\ ReturnedRecords
     /\ Len(result.val.items) <= Len(decoded.val.items)
     /\ NamesOf(result.val.items)
          = NamesOf(SelectSeq(decoded.val.items, Coercible))

\* C4: for every response text parse_openai_response raises nothing and
\* returns a sequence of records (an empty one when neither json.loads nor
\* the pattern gives a variable).
C4_ReturnsSequence ==
  decoded # NotRun => decoded.exc = "none" /\ IsRecordList(decoded.val)

\* The record the fallback is to give for a fragment.
ExpectedRecord(f) ==
  PyDict(<<<<KeyName, PyStr(f.name)>>,
           <<KeyMin, f.min>>,
           <<KeyMax, f.max>>,
           <<KeyDefault, f.default>>,
           <<KeyStep,
             IF f.step.n < StepFloor THEN PyNum(StepFloor) ELSE f.step>> >>)

\* C5: for a text that is not JSON and holds k >= 1 fragments, the fallback
\* returns k records in the order of the text, each with its fragment's name
\* and numbers, the step raised to 0.1 at least.
C5_FallbackRecords ==
  (/\ plan.kind \in {"bare", "quoted"}
   /\ Len(plan.records) >= 1
   /\ decoded # NotRun)
  => decoded = Ok(PyList([j \in 1..Len(plan.records) |->
                            ExpectedRecord(plan.records[j])]))

\* C6: with names and values of different lengths plot_tornado_chart fails,
\* and draws no series cut or padded to one of the two lengths.
C6_MismatchFails ==
  (chart # NotCalled /\ Len(variables) # Len(values))
  => chart.exc # "none" /\ chart.bars = <<>>

\* C7: for names and values of one length the series is a permutation of the
\* (name, value) pairs, each name with its own value, in ascending order of
\* |value - mean|; A, B, C with 10, 12, 100 come out as B, A, C.
C7_AscendingPermutation ==
  (chart # NotCalled /\ Len(variables) = Len(values))
  => /\ chart.exc = "none"
     /\ Len(chart.labels) = Len(values)
     /\ Len(chart.widths) = Len(values)
     /\ \A i \in 1..Len(values) :
          \E j \in 1..Len(values) : chart.indices[j] = i
     /\ \A j \in 1..Len(values) :
          /\ chart.labels[j] = variables[chart.indices[j]]
          /\ chart.widths[j] = values[chart.indices[j]]
     /\ \A j \in 1..(Len(values) - 1) :
          Abs(Len(values) * chart.widths[j] - Sum(values))
            <= Abs(Len(values) * chart.widths[j + 1] - Sum(values))
     /\ (/\ variables = <<<<"A">>, <<"B">>, <<"C">>>>
         /\ values = <<10 * Unit, 12 * Unit, 100 * Unit>>)
        => chart.labels = <<<<"B">>, <<"A">>, <<"C">>>>
C7_Witness ==
  /\ chart.exc = "none"
  /\ variables = <<<<"A">>, <<"B">>, <<"C">>>>
  /\ values = <<10 * Unit, 12 * Unit, 100 * Unit>>
  /\ chart.labels = <<<<"B">>, <<"A">>, <<"C">>>>

\* C8: the order is stable: two entries of equal deviation come out in the
\* order of the input, so A, B, C with 5, 5, 5 come out as A, B, C.
C8_Stable ==
  (chart.exc = "none" /\ Len(variables) = Len(values))
  => \A a, b \in 1..Len(values) :
       (/\ a < b
        /\ Deviation(values, chart.indices[a])
             = Deviation(values, chart.indices[b]))
       => chart.indices[a] < chart.indices[b]

\* C9: if min and max are equal after the clamping of lines 88-89, max is
\* raised by exactly one step, the step floored at 0.1, and min and default
\* stay; if they differ, max is not widened.  {min 5, max 5, default 5,
\* step 2} gives min 5, max 7.
C9_Widening ==
  (DecodedRecords /\ ReturnedRecords)
  => /\ \A j \in 1..Len(result.val.items) :
          LET in == decoded.val.items[j]
              out == result.val.items[j]
              clamped == PyFloat(PyMax(Lookup(in, KeyMax),
                                       Lookup(in, KeyDefault)).val).val.n
              step == PyFloat(Lookup(in, KeyStep)).val.n
          IN /\ Num(out, KeyStep) = (IF step < StepFloor THEN StepFloor ELSE step)
             /\ Num(out, KeyDefault) = PyFloat(Lookup(in, KeyDefault)).val.n
             /\ Num(out, KeyMin)
                  = PyFloat(PyMin(Lookup(in, KeyMin),
                                  Lookup(in, KeyDefault)).val).val.n
             /\ Num(out, KeyMax) = (IF Num(out, KeyMin) = clamped
                                    THEN clamped + Num(out, KeyStep)
                                    ELSE clamped)
             \* for numbers, the clamping is that of the numbers
             /\ (\A k \in {KeyMin, KeyMax, KeyDefault} : Lookup(in, k).t = "num")
                => /\ Num(out, KeyMin)
                        = (IF Num(in, KeyMin) <= Num(in, KeyDefault)
                           THEN Num(in, KeyMin) ELSE Num(in, KeyDefault))
                   /\ clamped = (IF Num(in, KeyMax) >= Num(in, KeyDefault)
                                 THEN Num(in, KeyMax) ELSE Num(in, KeyDefault))
     /\ plan = Plan("json", <<Degenerate>>, <<>>)
        => /\ Num(result.val.items[1], KeyMin) = 5 * Unit
           /\ Num(result.val.items[1], KeyMax) = 7 * Unit
C9_Witness ==
  /\ plan = Plan("json", <<Degenerate>>, <<>>)
  /\ ReturnedRecords
  /\ Num(result.val.items[1], KeyMin) = 5 * Unit
  /\ Num(result.val.items[1], KeyMax) = 7 * Unit
  /\ Num(result.val.items[1], KeyDefault) = 5 * Unit

\* C10: once a call of generate_business_variables has returned and its
\* result, an empty list included, is in the session state, no later run
\* calls it again or changes what is stored, whatever the inputs and the
\* sliders; after an empty result every later run with a business idea and a
\* location shows the failure message again.  A run issues a call only if
\* the entry is absent.
C10_GeneratedOnce ==
  [][/\ session_state # Absent
        => /\ session_state' = session_state
           /\ ~issued'
           /\ UNCHANGED <<plan, response_text, decoded, result>>
     /\ issued' => session_state = Absent
     /\ (/\ session_state # Absent
         /\ ~Truthy(session_state)
         /\ business_idea' # <<>>
         /\ location' # <<>>)
        => display' = "failed"]_vars
C10_Witness ==
  /\ session_state = PyList(<<>>)
  /\ result = Ok(PyList(<<>>))
  /\ ~issued
  /\ display = "failed"

====
